---- MODULE Spec2Model ----
(***************************************************************************)
(* Chunked media transfer engine of tgstorage                              *)
(* (src/core/actions/message-media.ts): the download scheduler with its    *)
(* registry of downloading files, the stream accessor and the upload       *)
(* pipeline.                                                               *)
(*                                                                         *)
(* One action is one synchronous run of JavaScript: from an entry point or *)
(* the resumption after an await up to the next await.  A transport call   *)
(* (api.downloadFilePart) is in flight between the step that issues it and *)
(* the step that handles its result.                                       *)
(***************************************************************************)
EXTENDS Integers, Sequences, FiniteSets, TLC

(* ------------------------------ bounds --------------------------------- *)

\* accepted downloadFile calls in one behaviour with small files
MaxRequests == 5

\* accepted downloadFile calls in one behaviour with the large file
MaxResumes == 2

\* accepted downloadFile calls in one behaviour in which requests queue up
\* behind one another for the large file
MaxQueued == 5

\* parts of the large file in the behaviours in which files are never reset
BigParts == 3

\* parts of the large file in the behaviours in which files are reset
FewParts == 2

\* transport reads one stream request may cause before the model stops it
MaxStreamReads == 3

\* files attached to one outgoing message
MaxFiles == 2

\* parts of an uploaded main file (a thumbnail has one part)
MaxParts == 2

\* uploadFiles calls for one outgoing message: the first and its retries
MaxUploads == 2

(* ------------------------- program constants --------------------------- *)

\* sizes are counted in KiB: FILE_SIZE.KB512
DOWNLOADING_PART_SIZE == 512

MAX_DOWNLOADING_COUNT == 4

(* ------------------------------- files --------------------------------- *)

\* file keys as generateFileKey derives them, one per (id, size)
Keys == {"a", "b"}

\* file.size, in KiB, of a file of the given number of parts whose last
\* part is short
SizeOf(parts) == (parts - 1) * DOWNLOADING_PART_SIZE + 1

\* The files the application asks for in one behaviour, file.size of each
\* in KiB, and how many downloadFile calls are followed:
\*   a large file of FewParts parts, the last part short, asked for up to
\*   MaxResumes times;
\*   a file of exactly one part, asked for up to MaxRequests times.
Worlds ==
  { [files |-> {"a"}, limit |-> MaxResumes,
     size |-> [f \in Keys |-> SizeOf(FewParts)]],
    [files |-> {"b"}, limit |-> MaxRequests,
     size |-> [f \in Keys |-> DOWNLOADING_PART_SIZE]] }

\* the same with a large file of BigParts parts
WorldsNoReset ==
  { [files |-> {"a"}, limit |-> MaxResumes,
     size |-> [f \in Keys |-> SizeOf(BigParts)]],
    [files |-> {"b"}, limit |-> MaxRequests,
     size |-> [f \in Keys |-> DOWNLOADING_PART_SIZE]] }

Lanes == 0 .. (MAX_DOWNLOADING_COUNT - 1)

VARIABLES
  downloadingFiles,  \* store.downloadingFiles: key -> entry
  queues,            \* downloadingQueue.queues: lane -> sequence of tasks
  nextIndex,         \* downloadingQueue.nextIndex
  accepted,          \* number of downloadFile calls accepted so far
  refreshRequested,  \* keys whose message refreshMessage was called for
  interrupted,       \* key -> errors of its fetches since its last accepted call
  lastCall,          \* how the last downloadFile call ended
  world,             \* the files of this behaviour (never changes)
  streamingFiles,    \* store.streamingFiles: the entry of the streamed file
  foldersMessages,   \* store.foldersMessages: the message that owns the file
  stream,            \* the downloadStreamFilePart call being served
  sendingMessage,    \* store.sendingMessages: the folder's sending message
  cache,             \* the file keys the byte cache holds staged bytes for
  uploadedParts,     \* key -> the parts api.uploadFilePart was called with
  markers,           \* the files whose marker message createMessage created
  upload,            \* the uploadFiles call in progress and its pipelines
  partStore          \* key -> the parts addBytes appended under the key

vars == <<downloadingFiles, queues, nextIndex, accepted, refreshRequested,
          interrupted, lastCall, world, streamingFiles, foldersMessages,
          stream, sendingMessage, cache, uploadedParts, markers, upload,
          partStore>>

downloadVars == <<downloadingFiles, queues, nextIndex, accepted,
                  refreshRequested, interrupted, lastCall, world, partStore>>

streamVars == <<streamingFiles, foldersMessages, stream>>

uploadVars == <<sendingMessage, cache, uploadedParts, markers, upload>>

(* --------------------------- registry entry ---------------------------- *)

\* no entry under the key (Map.get gives undefined)
NoFile ==
  [present |-> FALSE, downloading |-> FALSE, lastPart |-> -1,
   partsCount |-> 0, progress |-> 0, fileKey |-> FALSE]

\* the `file` argument of downloadFile: lastPart, progress, fileKey unset
NewFile ==
  [present |-> TRUE, downloading |-> FALSE, lastPart |-> -1,
   partsCount |-> 0, progress |-> 0, fileKey |-> FALSE]

getDownloadingFile(files, f) == files[f]

setDownloadingFile(files, f, entry) ==
  [files EXCEPT ![f] = [entry EXCEPT !.present = TRUE]]

\* Math.ceil(a / b) for a >= 0, b > 0
Ceil(a, b) == (a + b - 1) \div b

\* Math.round(a / b * 100) for a >= 0, b > 0
RoundPercent(a, b) == (200 * a + b) \div (2 * b)

(* ------------------------ pause and reset ------------------------------ *)

\* pauseDownloadingFile: only an entry that is downloading is touched
pauseDownloadingFile(files, f) ==
  LET downloadingFile == getDownloadingFile(files, f) IN
  IF downloadingFile.present /\ downloadingFile.downloading
  THEN setDownloadingFile(files, f, [downloadingFile EXCEPT !.downloading = FALSE])
  ELSE files

\* resetDownloadingFile: the entry is deleted from the map
resetDownloadingFile(files, f) == [files EXCEPT ![f] = NoFile]

(* ------------------------------ tasks ---------------------------------- *)

\* A task a downloadFile call handed to downloadingQueue.add.
\*   pc         "queued" (not begun), "fetch" (awaiting api.downloadFilePart
\*              for `part`), "wait" (fn returned, wait(DOWNLOADING_TIMEOUT))
\*   partsCount the count the task read when it began
\*   base       the entry's lastPart when the call was accepted
\*   id         how many calls were accepted before the one that enqueued it
Task(f, b, k) ==
  [key |-> f, pc |-> "queued", part |-> -1, partsCount |-> 0, base |-> b,
   id |-> k]

\* fn has returned: the lane now awaits wait(DOWNLOADING_TIMEOUT)
Finished(t) == [t EXCEPT !.pc = "wait"]

\* a part loop that does not look at the registry before a request
LoopPartUnchecked(files, t, part) ==
  IF part < t.partsCount
  THEN [t EXCEPT !.pc = "fetch", !.part = part]
  ELSE Finished(t)

\* a part loop that stops before the last part
LoopPartStopsEarly(files, t, part) ==
  LET downloadingFile == getDownloadingFile(files, t.key) IN
  IF part < t.partsCount - 1 /\ downloadingFile.present
     /\ downloadingFile.downloading
  THEN [t EXCEPT !.pc = "fetch", !.part = part]
  ELSE Finished(t)

\* the head of the part loop for `part`: the loop condition, the re-read of
\* the entry, and the call of api.downloadFilePart
LoopPart(files, t, part) ==
  LET downloadingFile == getDownloadingFile(files, t.key) IN
  IF part < t.partsCount /\ downloadingFile.present /\ downloadingFile.downloading
  THEN [t EXCEPT !.pc = "fetch", !.part = part]
  ELSE Finished(t)

\* the task begins: it reads lastPart and partsCount and enters the loop
StartTask(files, t) ==
  LET downloadingFile == getDownloadingFile(files, t.key) IN
  IF ~downloadingFile.present
  THEN Finished(t)
  ELSE LoopPart(files, [t EXCEPT !.partsCount = downloadingFile.partsCount],
                downloadingFile.lastPart + 1)

\* a completion that assigns the terminal key and leaves the flag as it was
RecordPartStillDownloading(downloadingFile, part, partsCount) ==
  LET isLastPart == part = partsCount - 1 IN
  [downloadingFile EXCEPT
     !.fileKey = IF isLastPart THEN TRUE ELSE @,
     !.lastPart = part,
     !.progress = RoundPercent(part + 1, partsCount)]

\* the entry after a fetched part was stored
RecordPart(downloadingFile, part, partsCount) ==
  LET isLastPart == part = partsCount - 1 IN
  [downloadingFile EXCEPT
     !.fileKey = IF isLastPart THEN TRUE ELSE @,
     !.downloading = IF isLastPart THEN FALSE ELSE @,
     !.lastPart = part,
     !.progress = RoundPercent(part + 1, partsCount)]

\* a catch handler that forgets to pause the download
OnPartErrorNoPause(files, f, message) == files

\* the catch handler of the part request
OnPartError(files, f, message) ==
  IF message = "expired" THEN pauseDownloadingFile(files, f) ELSE files

\* refreshMessage is called by the catch handler for this error only
RefreshAfter(refreshing, f, message) ==
  IF message = "expired" THEN refreshing \cup {f} ELSE refreshing

(* ------------------------- downloadingQueue ---------------------------- *)

\* a queue that calls every task as soon as it is added
RunsAtOnceAlways(q) == Len(q) >= 1

\* a sync-task-queue runs an enqueued task at once when nothing is pending
\* before it
RunsAtOnce(q) == Len(q) = 1

\* an index that stays on the last lane instead of wrapping to lane 0
NextLaneIndexNoWrap(currentIndex) ==
  IF currentIndex = MAX_DOWNLOADING_COUNT - 1 THEN currentIndex ELSE currentIndex + 1

\* downloadingQueue.add: the next value of nextIndex
NextLaneIndex(currentIndex) ==
  IF currentIndex = MAX_DOWNLOADING_COUNT - 1 THEN 0 ELSE currentIndex + 1

\* a queue that puts a new task before the tasks already on the lane
EnqueueAtFront(files, q, t) ==
  LET q1 == <<t>> \o q IN
  IF RunsAtOnce(q1) THEN [q1 EXCEPT ![1] = StartTask(files, t)] ELSE q1

\* downloadingQueue.add: the lane's queue after the task was enqueued
Enqueue(files, q, t) ==
  LET q1 == Append(q, t) IN
  IF RunsAtOnce(q1) THEN [q1 EXCEPT ![Len(q1)] = StartTask(files, t)] ELSE q1

\* an early return that only looks at the terminal fileKey
IsNoOpWhenDone(downloadingFile) == downloadingFile.fileKey

\* the early return of downloadFile
IsNoOp(downloadingFile) == downloadingFile.fileKey \/ downloadingFile.downloading

\* the entry downloadFile registers
Registered(downloadingFile, size) ==
  LET started == [downloadingFile EXCEPT !.downloading = TRUE] IN
  IF started.lastPart = -1 \/ started.lastPart = 0
  THEN [started EXCEPT !.partsCount = Ceil(size, DOWNLOADING_PART_SIZE)]
  ELSE started

(* --------------------------- stream accessor --------------------------- *)

\* file references the service hands out
Refs == {"r1", "r2"}

\* byte offsets a stream read asks for, in KiB
Offsets == {0, DOWNLOADING_PART_SIZE}

\* no media (undefined)
NoMedia == [id |-> "none", file_reference |-> "none"]

Media(id, ref) == [id |-> id, file_reference |-> ref]

\* the message (folder, messageId) of the store: absent, or with a primary
\* media and the media of its secondary messages
NoMessage == [present |-> FALSE, media |-> NoMedia, mediaMessages |-> << >>]

Message(media, others) ==
  [present |-> TRUE, media |-> media, mediaMessages |-> others]

\* what the store may hold for the owning message: nothing; the streamed
\* file "s" as primary media; "s" among the secondary media; only another
\* file "x"; no media at all
Messages ==
  {NoMessage, Message(NoMedia, << >>), Message(Media("x", "r1"), << >>)}
  \cup {Message(Media("s", r), << >>) : r \in Refs}
  \cup {Message(Media("x", "r1"), <<Media("s", r)>>) : r \in Refs}

\* no entry under the stream's key
NoStream == [present |-> FALSE, id |-> "s", file_reference |-> "none", owner |-> FALSE]

\* the first element of medias with the given id, NoMedia if there is none
RECURSIVE Find(_, _)
Find(medias, id) ==
  IF medias = << >> THEN NoMedia
  ELSE IF Head(medias).id = id THEN Head(medias)
  ELSE Find(Tail(medias), id)

\* getFileReference: the reference of the media with the entry's id among
\* the message's primary and secondary media
getFileReference(message, id) ==
  LET medias == IF message.present
                THEN <<message.media>> \o message.mediaMessages
                ELSE <<NoMedia>>
  IN Find(medias, id).file_reference

\* downloadStreamFilePart up to its await: a given reference is merged into
\* the entry
MergeReference(streamingFile, file_reference) ==
  IF file_reference # "none"
  THEN [streamingFile EXCEPT !.file_reference = file_reference]
  ELSE streamingFile

\* the catch handler of the stream read asks for a refresh and a retry
RetriesAfter(streamingFile, message) ==
  message = "expired" /\ streamingFile.owner

\* no stream read is being served
Idle == [pc |-> "idle", offsetSize |-> 0, reads |-> 0, result |-> "none"]

(* --------------------------- upload pipeline --------------------------- *)

\* The i-th file attached to the outgoing message: its fileKey is i; the
\* first file has a thumbnail, staged under the key -1; 0 stands for no key.
InputFile(i) ==
  [fileKey |-> i, thumbFileKey |-> IF i = 1 THEN -1 ELSE 0, progress |-> 0]

InputFiles(n) == [i \in 1 .. n |-> InputFile(i)]

UploadKeys == (1 .. MaxFiles) \cup {-1}

\* fileParams.partsCount as api.prepareUploadingFile gives it for the key
PartsCountOf(fileKey) == IF fileKey > 0 THEN MaxParts ELSE 1

\* no sending message for the folder (getSendingMessage gives undefined)
NoSending == [present |-> FALSE, inputFiles |-> << >>]

\* a check that never sees the sending message change
checkIsUploadingAlways(message, fileKey) == TRUE

\* checkIsUploading(folder, fileKey)
checkIsUploading(message, fileKey) ==
  /\ message.present
  /\ \E i \in DOMAIN message.inputFiles :
       fileKey \in {message.inputFiles[i].fileKey,
                    message.inputFiles[i].thumbFileKey}

\* onUploadPart(folder, fileKey, progress)
onUploadPart(message, fileKey, progress) ==
  IF ~message.present THEN message
  ELSE [message EXCEPT !.inputFiles =
          [i \in DOMAIN @ |->
             IF @[i].fileKey = fileKey THEN [@[i] EXCEPT !.progress = progress]
             ELSE @[i]]]

\* a pending list that keeps the finished file
RemoveFinishedKeepsAll(message, fileKey) == message

\* uploadFiles: the sending message without the finished file
RemoveFinished(message, fileKey) ==
  [message EXCEPT !.inputFiles = SelectSeq(@, LAMBDA f : f.fileKey # fileKey)]

\* One of the two uploads of a file (main content, thumbnail).
\*   pc  "none" (returned undefined), "prepare" (awaiting
\*       api.prepareUploadingFile), "bytes" (awaiting transformToBytes),
\*       "send" (awaiting api.uploadFilePart), "ok" (returned fileParams),
\*       "error" (a transport call rejected)
\*   filePart  whether getFilePart found the bytes of the part
NoPipe == [pc |-> "none", part |-> 0, filePart |-> FALSE]

Active(pipe) == pipe.pc \in {"prepare", "bytes", "send"}

\* the upload of one key up to its first await
StartPipe(message, staged, fileKey) ==
  IF fileKey = 0 \/ fileKey \notin staged \/ ~checkIsUploading(message, fileKey)
  THEN NoPipe
  ELSE [NoPipe EXCEPT !.pc = "prepare"]

\* the head of the part loop of an upload for `part`, up to its next await;
\* after the last part the upload returns its fileParams
LoopUploadPart(message, staged, fileKey, part) ==
  IF part < PartsCountOf(fileKey)
  THEN IF checkIsUploading(message, fileKey)
       THEN [pc |-> "bytes", part |-> part, filePart |-> fileKey \in staged]
       ELSE NoPipe
  ELSE [NoPipe EXCEPT !.pc = "ok"]

\* The uploadFiles call.
\*   pc  "idle" (never called), "uploading" (awaiting uploadFile),
\*       "creating" (awaiting createMessage), "returned", "raised"
\*   inputFiles  message.inputFiles of the argument;  i  the file at work
\*   result      what the call returned: "message" or "undefined"
\*   calls       how many times uploadFiles was called
NoUpload ==
  [pc |-> "idle", inputFiles |-> << >>, i |-> 0, main |-> NoPipe,
   thumb |-> NoPipe, result |-> "none", calls |-> 0]

Returned(u, result) ==
  [NoUpload EXCEPT !.pc = "returned", !.result = result, !.calls = u.calls]

\* the key a pipeline of the file at work uploads
PipeKey(u, p) ==
  IF p = "main" THEN u.inputFiles[u.i].fileKey ELSE u.inputFiles[u.i].thumbFileKey

\* the loop over the files from file i on, up to the next await
RECURSIVE LoopFiles(_, _, _, _)
LoopFiles(u, message, staged, i) ==
  IF i > Len(u.inputFiles) THEN Returned(u, "message")
  ELSE IF ~message.present THEN Returned(u, "undefined")
  ELSE LET main == StartPipe(message, staged, u.inputFiles[i].fileKey)
           thumb == StartPipe(message, staged, u.inputFiles[i].thumbFileKey)
       IN IF ~Active(main) /\ ~Active(thumb)
          THEN LoopFiles(u, message, staged, i + 1)
          ELSE [u EXCEPT !.pc = "uploading", !.i = i, !.main = main,
                         !.thumb = thumb]

\* uploadFile after one of its uploads moved: Promise.all rejects with the
\* first rejection and resolves when both uploads returned; without main
\* fileParams the file is skipped, with them createMessage is called
Join(u, message, staged) ==
  IF u.main.pc = "error" \/ u.thumb.pc = "error"
  THEN [u EXCEPT !.pc = "raised"]
  ELSE IF Active(u.main) \/ Active(u.thumb) THEN u
  ELSE IF u.main.pc = "ok"
       THEN [u EXCEPT !.pc = "creating", !.main = NoPipe, !.thumb = NoPipe]
       ELSE LoopFiles(u, message, staged, u.i + 1)

InitUploads ==
  /\ sendingMessage = NoSending
  /\ cache = {}
  /\ uploadedParts = [k \in UploadKeys |-> << >>]
  /\ markers = << >>
  /\ upload = NoUpload

(* ------------------------------ actions -------------------------------- *)

InitDownloads ==
  /\ downloadingFiles = [f \in Keys |-> NoFile]
  /\ queues = [l \in Lanes |-> << >>]
  /\ nextIndex = 0
  /\ accepted = 0
  /\ refreshRequested = {}
  /\ interrupted = [f \in Keys |-> {}]
  /\ lastCall = "none"
  /\ partStore = [f \in Keys |-> << >>]

InitStreams ==
  /\ streamingFiles = NoStream
  /\ foldersMessages = NoMessage
  /\ stream = Idle

Init ==
  /\ InitDownloads
  /\ InitStreams
  /\ InitUploads
  /\ world \in Worlds

\* downloadFile(messageId, file) for the file with key f
downloadFile(f) ==
  LET found == getDownloadingFile(downloadingFiles, f)
      downloadingFile == IF found.present THEN found ELSE NewFile
      files == setDownloadingFile(downloadingFiles, f,
                 Registered(downloadingFile, world.size[f]))
  IN
  /\ IF IsNoOp(downloadingFile)
     THEN /\ lastCall' = "rejected"
          /\ UNCHANGED <<downloadingFiles, queues, nextIndex, accepted,
                         interrupted>>
     ELSE /\ accepted < world.limit
          /\ downloadingFiles' = files
          /\ queues' = [queues EXCEPT ![nextIndex] =
                          Enqueue(files, @, Task(f, downloadingFile.lastPart, accepted))]
          /\ nextIndex' = NextLaneIndex(nextIndex)
          /\ accepted' = accepted + 1
          /\ interrupted' = [interrupted EXCEPT ![f] = {}]
          /\ lastCall' = "accepted"
  /\ UNCHANGED <<refreshRequested, world, partStore, streamVars, uploadVars>>

\* pauseDownloadingFile(file) called by the application
Pause(f) ==
  /\ downloadingFiles' = pauseDownloadingFile(downloadingFiles, f)
  /\ UNCHANGED <<queues, nextIndex, accepted, refreshRequested, interrupted,
                 lastCall, world, partStore, streamVars, uploadVars>>

\* resetDownloadingFile(file) called by the application
Reset(f) ==
  /\ downloadingFiles' = resetDownloadingFile(downloadingFiles, f)
  /\ UNCHANGED <<queues, nextIndex, accepted, refreshRequested, interrupted,
                 lastCall, world, partStore, streamVars, uploadVars>>

\* api.downloadFilePart of the task running on lane l resolves with bytes
PartFetched(l) ==
  /\ queues[l] # << >>
  /\ Head(queues[l]).pc = "fetch"
  /\ LET t == Head(queues[l])
         downloadingFile == getDownloadingFile(downloadingFiles, t.key)
         files == IF downloadingFile.present
                  THEN setDownloadingFile(downloadingFiles, t.key,
                         RecordPart(downloadingFile, t.part, t.partsCount))
                  ELSE downloadingFiles
     IN
     /\ downloadingFiles' = files
     /\ partStore' = IF downloadingFile.present
                     THEN [partStore EXCEPT ![t.key] = Append(@, t.part)]
                     ELSE partStore
     /\ queues' = [queues EXCEPT ![l][1] =
                     IF downloadingFile.present
                     THEN LoopPart(files, t, t.part + 1)
                     ELSE Finished(t)]
  /\ UNCHANGED <<nextIndex, accepted, refreshRequested, interrupted, lastCall,
                 world, streamVars, uploadVars>>

\* api.downloadFilePart of the task running on lane l rejects with message
PartFailed(l, message) ==
  /\ queues[l] # << >>
  /\ Head(queues[l]).pc = "fetch"
  /\ LET t == Head(queues[l]) IN
     /\ downloadingFiles' = OnPartError(downloadingFiles, t.key, message)
     /\ refreshRequested' = RefreshAfter(refreshRequested, t.key, message)
     /\ queues' = [queues EXCEPT ![l][1] = Finished(t)]
     /\ interrupted' = [interrupted EXCEPT ![t.key] = @ \cup {message}]
  /\ UNCHANGED <<nextIndex, accepted, lastCall, world, partStore, streamVars,
                 uploadVars>>

\* a lane that drops a finished task and does not call the one behind it
LaneProceedsIdle(l) ==
  /\ queues[l] # << >>
  /\ Head(queues[l]).pc = "wait"
  /\ queues' = [queues EXCEPT ![l] = Tail(@)]
  /\ UNCHANGED <<downloadingFiles, nextIndex, accepted, refreshRequested,
                 interrupted, lastCall, world, partStore, streamVars, uploadVars>>

\* wait(DOWNLOADING_TIMEOUT) after the task on lane l elapses: the lane's
\* next task, if any, begins
LaneProceeds(l) ==
  /\ queues[l] # << >>
  /\ Head(queues[l]).pc = "wait"
  /\ LET rest == Tail(queues[l]) IN
     queues' = [queues EXCEPT ![l] =
                  IF rest = << >> THEN rest
                  ELSE [rest EXCEPT ![1] = StartTask(downloadingFiles, rest[1])]]
  /\ UNCHANGED <<downloadingFiles, nextIndex, accepted, refreshRequested,
                 interrupted, lastCall, world, partStore, streamVars, uploadVars>>

Next ==
  \/ \E f \in world.files : downloadFile(f)
  \/ \E f \in world.files : Pause(f)
  \/ \E f \in world.files : Reset(f)
  \/ \E l \in Lanes : PartFetched(l)
  \/ \E l \in Lanes : \E message \in {"expired", "error"} : PartFailed(l, message)
  \/ \E l \in Lanes : LaneProceeds(l)

Spec == Init /\ [][Next]_vars

\* the download scheduler when the application never resets a file
NextNoReset ==
  \/ \E f \in world.files : downloadFile(f)
  \/ \E f \in world.files : Pause(f)
  \/ \E l \in Lanes : PartFetched(l)
  \/ \E l \in Lanes : \E message \in {"expired", "error"} : PartFailed(l, message)
  \/ \E l \in Lanes : LaneProceeds(l)

InitNoReset ==
  /\ InitDownloads
  /\ InitStreams
  /\ InitUploads
  /\ world \in WorldsNoReset

SpecNoReset == InitNoReset /\ [][NextNoReset]_vars

\* the download scheduler when the application asks for the large file
\* more often than there are lanes, every part fetch succeeds and no file
\* is reset
InitQueued ==
  /\ InitDownloads
  /\ InitStreams
  /\ InitUploads
  /\ world = [files |-> {"a"}, limit |-> MaxQueued,
              size |-> [f \in Keys |-> SizeOf(BigParts)]]

NextQueued ==
  \/ \E f \in world.files : downloadFile(f)
  \/ \E f \in world.files : Pause(f)
  \/ \E l \in Lanes : PartFetched(l)
  \/ \E l \in Lanes : LaneProceeds(l)

SpecQueued == InitQueued /\ [][NextQueued]_vars

\* the download scheduler with one-part files asked for again and again
\* and never reset, when every transport call returns (with bytes or with
\* an error) and every wait(DOWNLOADING_TIMEOUT) elapses
InitFair ==
  /\ InitDownloads
  /\ InitStreams
  /\ InitUploads
  /\ world \in {w \in Worlds : w.files = {"b"}}

PartReturns(l) ==
  \/ PartFetched(l)
  \/ \E message \in {"expired", "error"} : PartFailed(l, message)

SpecFair ==
  /\ InitFair
  /\ [][NextNoReset]_vars
  /\ \A l \in Lanes : WF_vars(PartReturns(l)) /\ WF_vars(LaneProceeds(l))

\* the download scheduler with the large file "a", whose part fetches all
\* succeed and which is never paused or reset, next to a one-part file "b"
\* that is paused, fails and is asked for again; every transport call
\* returns and every wait(DOWNLOADING_TIMEOUT) elapses
InitComplete ==
  /\ InitDownloads
  /\ InitStreams
  /\ InitUploads
  /\ world = [files |-> {"a", "b"}, limit |-> MaxResumes + 1,
              size |-> [f \in Keys |->
                          IF f = "a" THEN SizeOf(BigParts)
                          ELSE DOWNLOADING_PART_SIZE]]

NextComplete ==
  \/ \E f \in world.files : downloadFile(f)
  \/ Pause("b")
  \/ \E l \in Lanes : PartFetched(l)
  \/ \E l \in Lanes : \E message \in {"expired", "error"} :
       PartFailed(l, message) /\ Head(queues[l]).key = "b"
  \/ \E l \in Lanes : LaneProceeds(l)

SpecComplete ==
  /\ InitComplete
  /\ [][NextComplete]_vars
  /\ \A l \in Lanes : WF_vars(PartFetched(l)) /\ WF_vars(LaneProceeds(l))

(* ------------------------- stream accessor actions --------------------- *)

\* streamFile(messageId, file): the entry is created or updated with the
\* file's reference; owner tells whether folder and messageId are set
streamFile(ref, owner) ==
  /\ streamingFiles' = [present |-> TRUE, id |-> "s", file_reference |-> ref,
                        owner |-> owner]
  /\ UNCHANGED <<foldersMessages, stream, downloadVars, uploadVars>>

\* the store's message changes (loaded, edited, deleted) outside the engine
StoreChanges(message) ==
  /\ foldersMessages' = message
  /\ UNCHANGED <<streamingFiles, stream, downloadVars, uploadVars>>

\* downloadStreamFilePart({fileKey, offsetSize, partSize, file_reference})
\* called for a range, up to its await
downloadStreamFilePart(offsetSize, file_reference) ==
  /\ stream.pc = "idle"
  /\ IF ~streamingFiles.present
     THEN /\ stream' = [Idle EXCEPT !.offsetSize = offsetSize, !.result = "nothing"]
          /\ UNCHANGED streamingFiles
     ELSE /\ streamingFiles' = MergeReference(streamingFiles, file_reference)
          /\ stream' = [pc |-> "reading", offsetSize |-> offsetSize, reads |-> 1,
                        result |-> "none"]
  /\ UNCHANGED <<foldersMessages, downloadVars, uploadVars>>

\* the transport read resolves with bytes
StreamReadDone ==
  /\ stream.pc = "reading"
  /\ stream' = [stream EXCEPT !.pc = "idle", !.result = "bytes"]
  /\ UNCHANGED <<streamingFiles, foldersMessages, downloadVars, uploadVars>>

\* the transport read rejects with message: the catch handler
StreamReadFailed(message) ==
  /\ stream.pc = "reading"
  /\ stream' = IF RetriesAfter(streamingFiles, message)
               THEN [stream EXCEPT !.pc = "refreshing"]
               ELSE [stream EXCEPT !.pc = "idle", !.result = "nothing"]
  /\ UNCHANGED <<streamingFiles, foldersMessages, downloadVars, uploadVars>>

\* refreshMessage(folder, messageId, 0, onRefreshed) obtained the message:
\* the store holds it and the continuation runs, which reads the reference
\* with getFileReference and calls downloadStreamFilePart again
MessageRefreshed(message) ==
  /\ stream.pc = "refreshing"
  /\ stream.reads < MaxStreamReads
  /\ message.present
  /\ foldersMessages' = message
  /\ streamingFiles' = MergeReference(streamingFiles,
                         getFileReference(message, streamingFiles.id))
  /\ stream' = [stream EXCEPT !.pc = "reading", !.reads = @ + 1]
  /\ UNCHANGED <<downloadVars, uploadVars>>

\* refreshMessage did not obtain the message: the continuation never runs
RefreshFailed ==
  /\ stream.pc = "refreshing"
  /\ foldersMessages' = NoMessage
  /\ stream' = [stream EXCEPT !.pc = "idle", !.result = "nothing"]
  /\ UNCHANGED <<streamingFiles, downloadVars, uploadVars>>

InitStream ==
  /\ InitDownloads
  /\ InitStreams
  /\ InitUploads
  /\ world \in {w \in Worlds : w.files = {"a"}}

NextStream ==
  \/ \E ref \in Refs : \E owner \in BOOLEAN : streamFile(ref, owner)
  \/ \E message \in Messages : StoreChanges(message)
  \/ \E offsetSize \in Offsets : \E ref \in Refs \cup {"none"} :
       downloadStreamFilePart(offsetSize, ref)
  \/ StreamReadDone
  \/ \E message \in {"expired", "error"} : StreamReadFailed(message)
  \/ \E message \in Messages : MessageRefreshed(message)
  \/ RefreshFailed

SpecStream == InitStream /\ [][NextStream]_vars

(* ------------------------- upload pipeline actions --------------------- *)

\* the application stages n files and sets the folder's sending message
StageMessage(n) ==
  /\ upload.pc = "idle"
  /\ ~sendingMessage.present
  /\ cache = {}
  /\ sendingMessage' = [present |-> TRUE, inputFiles |-> InputFiles(n)]
  /\ cache' = {k \in UploadKeys : checkIsUploading(sendingMessage', k)}
  /\ UNCHANGED <<uploadedParts, markers, upload, downloadVars, streamVars>>

\* the application removes the sending message (the send is cancelled)
RemoveSendingMessage ==
  /\ sendingMessage.present
  /\ sendingMessage' = NoSending
  /\ UNCHANGED <<cache, uploadedParts, markers, upload, downloadVars,
                 streamVars>>

\* resetUploadingFiles(inputFiles) for the files of the staged message
resetUploadingFiles ==
  /\ cache # {}
  /\ cache' = {}
  /\ UNCHANGED <<sendingMessage, uploadedParts, markers, upload, downloadVars,
                 streamVars>>

\* uploadFiles(message, folder, parentId) called with the sending message,
\* for the first time or again after an earlier call ended
uploadFiles ==
  /\ upload.pc \in {"idle", "returned", "raised"}
  /\ ~Active(upload.main) /\ ~Active(upload.thumb)
  /\ sendingMessage.present
  /\ upload.calls < MaxUploads
  /\ upload' = LoopFiles([NoUpload EXCEPT !.inputFiles = sendingMessage.inputFiles,
                                          !.calls = upload.calls + 1],
                         sendingMessage, cache, 1)
  /\ UNCHANGED <<sendingMessage, cache, uploadedParts, markers, downloadVars,
                 streamVars>>

\* what follows the step of pipeline p that left it as pipe: the purge of
\* the staged bytes when the upload of the key is complete, and uploadFile
PipeMoved(p, pipe, message) ==
  LET staged == IF pipe.pc = "ok" THEN cache \ {PipeKey(upload, p)} ELSE cache
      u == [upload EXCEPT ![p] = pipe]
  IN
  /\ cache' = staged
  /\ upload' = IF upload.pc = "uploading" THEN Join(u, message, staged) ELSE u

\* api.prepareUploadingFile resolves for pipeline p
Prepared(p) ==
  /\ upload[p].pc = "prepare"
  /\ PipeMoved(p, LoopUploadPart(sendingMessage, cache, PipeKey(upload, p), 0),
               sendingMessage)
  /\ UNCHANGED <<sendingMessage, uploadedParts, markers, downloadVars,
                 streamVars>>

\* transformToBytes resolves for pipeline p: with bytes, api.uploadFilePart
\* is called; without, the upload of the key returns
BytesRead(p) ==
  /\ upload[p].pc = "bytes"
  /\ IF upload[p].filePart
     THEN /\ uploadedParts' = [uploadedParts EXCEPT ![PipeKey(upload, p)] =
                                 Append(@, upload[p].part)]
          /\ PipeMoved(p, [upload[p] EXCEPT !.pc = "send"], sendingMessage)
     ELSE /\ UNCHANGED uploadedParts
          /\ PipeMoved(p, NoPipe, sendingMessage)
  /\ UNCHANGED <<sendingMessage, markers, downloadVars, streamVars>>

\* api.uploadFilePart resolves for pipeline p
PartUploaded(p) ==
  /\ upload[p].pc = "send"
  /\ LET fileKey == PipeKey(upload, p)
         progress == RoundPercent(upload[p].part + 1, PartsCountOf(fileKey))
         message == IF p = "main"
                    THEN onUploadPart(sendingMessage, fileKey, progress)
                    ELSE sendingMessage
     IN
     /\ sendingMessage' = message
     /\ PipeMoved(p, LoopUploadPart(message, cache, fileKey, upload[p].part + 1),
                  message)
  /\ UNCHANGED <<uploadedParts, markers, downloadVars, streamVars>>

\* api.prepareUploadingFile or api.uploadFilePart rejects for pipeline p
TransportRejects(p) ==
  /\ upload[p].pc \in {"prepare", "send"}
  /\ PipeMoved(p, [NoPipe EXCEPT !.pc = "error"], sendingMessage)
  /\ UNCHANGED <<sendingMessage, uploadedParts, markers, downloadVars,
                 streamVars>>

\* createMessage resolves with success: on success the marker message of
\* the file exists
MessageCreated(success) ==
  /\ upload.pc = "creating"
  /\ LET fileKey == upload.inputFiles[upload.i].fileKey
         final == upload.i = Len(upload.inputFiles)
     IN
     /\ markers' = IF success THEN Append(markers, fileKey) ELSE markers
     /\ IF success /\ ~final
        THEN IF ~sendingMessage.present
             THEN /\ upload' = Returned(upload, "undefined")
                  /\ UNCHANGED sendingMessage
             ELSE /\ sendingMessage' = RemoveFinished(sendingMessage, fileKey)
                  /\ upload' = LoopFiles(upload, sendingMessage', cache,
                                         upload.i + 1)
        ELSE /\ upload' = LoopFiles(upload, sendingMessage, cache, upload.i + 1)
             /\ UNCHANGED sendingMessage
  /\ UNCHANGED <<cache, uploadedParts, downloadVars, streamVars>>

InitUpload ==
  /\ InitDownloads
  /\ InitStreams
  /\ InitUploads
  /\ world \in {w \in Worlds : w.files = {"a"}}

NextUpload ==
  \/ \E n \in 1 .. MaxFiles : StageMessage(n)
  \/ RemoveSendingMessage
  \/ resetUploadingFiles
  \/ uploadFiles
  \/ \E p \in {"main", "thumb"} : Prepared(p)
  \/ \E p \in {"main", "thumb"} : BytesRead(p)
  \/ \E p \in {"main", "thumb"} : PartUploaded(p)
  \/ \E p \in {"main", "thumb"} : TransportRejects(p)
  \/ \E success \in BOOLEAN : MessageCreated(success)

SpecUpload == InitUpload /\ [][NextUpload]_vars

(* -------------------------- observing a step --------------------------- *)

\* the tasks of lane l that await api.downloadFilePart
Fetching(qs, l) == {i \in DOMAIN qs[l] : qs[l][i].pc = "fetch"}

\* transport calls issued by download tasks and not yet returned
InFlight == Cardinality(UNION {{l} \X Fetching(queues, l) : l \in Lanes})

\* in this step the task at the head of lane l called api.downloadFilePart
Issued(l) ==
  /\ queues'[l] # << >>
  /\ Head(queues'[l]).pc = "fetch"
  /\ ~ /\ queues[l] # << >>
       /\ Head(queues[l]) = Head(queues'[l])
       /\ Len(queues'[l]) >= Len(queues[l])

(* ------------------------------- claims -------------------------------- *)

\* C1: in every reachable state at most MAX_DOWNLOADING_COUNT calls of
\* api.downloadFilePart issued by queued download tasks are outstanding.
C1_AtMostNInFlight == InFlight <= MAX_DOWNLOADING_COUNT

\* every lane awaits a part and a further task is queued behind one of them
C1_Witness ==
  /\ InFlight = MAX_DOWNLOADING_COUNT
  /\ \E l \in Lanes : Len(queues[l]) >= 2

\* C2: a download accepted when the entry's lastPart was p >= 0 never
\* requests a part in 0..p: it continues after p.  (That its first request
\* is exactly p + 1 is the stronger half of the claim; already this half
\* fails.)
C2_NeverRefetches ==
  [][\A l \in Lanes :
       (Issued(l) /\ Head(queues'[l]).base >= 0) =>
         Head(queues'[l]).part > Head(queues'[l]).base]_vars

\* C3: a part fetch that fails with another error than FILE_REFERENCE_EXPIRED
\* leaves the registry as it was, and the next downloadFile call for the key
\* is accepted: a task is enqueued and the call counts as accepted.
C3_ResumableAfterFailure ==
  [][/\ \A l \in Lanes : PartFailed(l, "error") => downloadingFiles' = downloadingFiles
     /\ \A f \in Keys :
          (interrupted[f] = {"error"} /\ downloadFile(f)) =>
            /\ accepted' = accepted + 1
            /\ Len(queues'[nextIndex]) = Len(queues[nextIndex]) + 1]_vars

\* C4: when a part fetch fails with FILE_REFERENCE_EXPIRED the entry keeps
\* its lastPart, its downloading flag is false, a refresh of the message is
\* requested, and until a downloadFile call for the key is accepted no task
\* requests a part of that file.
C4_ExpiryPausesUntilNewCall ==
  [][/\ \A l \in Lanes :
          PartFailed(l, "expired") =>
            LET f == Head(queues[l]).key IN
            /\ downloadingFiles'[f].lastPart = downloadingFiles[f].lastPart
            /\ ~downloadingFiles'[f].downloading
            /\ f \in refreshRequested'
     /\ \A l \in Lanes :
          Issued(l) => "expired" \notin interrupted'[Head(queues'[l]).key]]_vars

\* a download of the large file was paused by an expired reference after a
\* part was recorded, while another task of the file still awaits a part
C4_Witness ==
  /\ "expired" \in interrupted["a"]
  /\ "a" \in refreshRequested
  /\ downloadingFiles["a"].present
  /\ ~downloadingFiles["a"].downloading
  /\ downloadingFiles["a"].lastPart >= 0
  /\ \E l \in Lanes : queues[l] # << >> /\ Head(queues[l]).pc = "fetch"

\* C5: one downloadStreamFilePart call causes at most two transport reads,
\* the read and one retry.
C5_AtMostOneRetry == stream.reads <= 2

\* C6: when after a FILE_REFERENCE_EXPIRED no media of the file is found in
\* the store's message, no retry read is issued and the read returns nothing.
C6_NoRetryWithoutReference ==
  [][(/\ stream.pc = "refreshing"
      /\ getFileReference(foldersMessages', streamingFiles.id) = "none") =>
        /\ stream'.reads = stream.reads
        /\ stream'.pc # "refreshing" => stream'.result = "nothing"]_vars

\* C7: the k-th accepted request (k from 0) is enqueued on lane k mod N,
\* whatever the lanes hold, and on no other lane.
C7_RoundRobin ==
  [][accepted' = accepted + 1 =>
       LET k == accepted % MAX_DOWNLOADING_COUNT IN
       /\ Len(queues'[k]) = Len(queues[k]) + 1
       /\ \A l \in Lanes \ {k} : queues'[l] = queues[l]]_vars

\* five requests were accepted; the fifth waits on lane 0 behind the first
\* although lane 1 is free
C7_Witness ==
  /\ accepted = 5
  /\ Len(queues[0]) = 2
  /\ queues[0][2].pc = "queued"
  /\ queues[1] = << >>

\* C8: a downloadFile call for a file whose entry has a terminal fileKey or
\* is downloading leaves the registry, the lanes and nextIndex unchanged.
C8_NoOpWhenDoneOrDownloading ==
  [][\A f \in Keys :
       (/\ downloadFile(f)
        /\ downloadingFiles[f].present
        /\ downloadingFiles[f].fileKey \/ downloadingFiles[f].downloading) =>
         UNCHANGED <<downloadingFiles, queues, nextIndex>>]_vars

\* a call was refused for a file that is fully downloaded
C8_Witness ==
  /\ lastCall = "rejected"
  /\ \E f \in Keys : downloadingFiles[f].fileKey

\* C9: without reset, lastPart of an entry never decreases from one state to
\* the next and never exceeds partsCount - 1.
C9_LastPartMonotone ==
  [][\A f \in Keys :
       (downloadingFiles[f].present /\ downloadingFiles'[f].present) =>
         /\ downloadingFiles'[f].lastPart >= downloadingFiles[f].lastPart
         /\ downloadingFiles'[f].lastPart <= downloadingFiles'[f].partsCount - 1]_vars

\* C10: between two accepted downloadFile calls (one download run, the file
\* never reset) the progress stored for a file never decreases.
C10_ProgressMonotone ==
  [][accepted' = accepted =>
       \A f \in Keys :
         downloadingFiles'[f].progress >= downloadingFiles[f].progress]_vars

C12_CancelledAtPartBoundary ==
  [][/\ \A l \in Lanes :
          Issued(l) => /\ downloadingFiles'[Head(queues'[l]).key].present
                       /\ downloadingFiles'[Head(queues'[l]).key].downloading
     /\ \A f \in Keys :
          (downloadingFiles'[f].downloading /\ ~downloadingFiles[f].downloading) =>
            /\ downloadFile(f)
            /\ accepted' = accepted + 1]_vars

\* the large file was paused by the application while a part was awaited:
\* the part was recorded, and the task stopped before the next part
C12_Witness ==
  /\ downloadingFiles["a"].present
  /\ ~downloadingFiles["a"].downloading
  /\ ~downloadingFiles["a"].fileKey
  /\ interrupted["a"] = {}
  /\ \E l \in Lanes :
       /\ queues[l] # << >>
       /\ Head(queues[l]).pc = "wait"
       /\ Head(queues[l]).key = "a"
       /\ Head(queues[l]).part = downloadingFiles["a"].lastPart
       /\ Head(queues[l]).part >= 0
       /\ Head(queues[l]).part < Head(queues[l]).partsCount - 1

\* the task of the call accepted after k others is on a lane and has not
\* begun
Queued(k) ==
  \E l \in Lanes : \E i \in DOMAIN queues[l] :
    queues[l][i].id = k /\ queues[l][i].pc = "queued"

\* C13: when every transport call returns and every post-task pause
\* elapses, the task of every accepted downloadFile call eventually begins,
\* whatever calls are accepted after it.
C13_NoStarvation ==
  \A k \in 0 .. (MaxRequests - 1) : (accepted > k) ~> (accepted > k /\ ~Queued(k))

\* the task of the fifth call began after it had waited behind the first
C13_Witness ==
  /\ accepted = 5
  /\ queues[0] # << >>
  /\ Head(queues[0]).id = 4
  /\ Head(queues[0]).pc = "fetch"

\* C14: a file whose sending message was removed while it was uploaded, or
\* before, gets no marker message (createMessage is called only for a file
\* whose upload ended while the sending message existed), and uploadFiles
\* raises no error unless a transport call rejected.
C14_NoMarkerAfterRemoval ==
  [][/\ (upload.pc = "uploading" /\ upload'.pc = "creating") =>
          sendingMessage.present
     /\ (upload.pc # "raised" /\ upload'.pc = "raised") =>
          \E p \in {"main", "thumb"} : TransportRejects(p)]_vars

\* C15: once the sending message does not reference a file key, no
\* api.uploadFilePart call is started for the key (so no part is sent again
\* either), and the staged bytes of the key are purged by nobody but
\* resetUploadingFiles.
C15_StopsOnceUnreferenced ==
  [][\A k \in UploadKeys :
       ~checkIsUploading(sendingMessage, k) =>
         /\ uploadedParts'[k] = uploadedParts[k]
         /\ (k \in cache /\ k \notin cache') => resetUploadingFiles]_vars

\* the marker message of the file with key k was created
Marked(k) == \E i \in DOMAIN markers : markers[i] = k

\* the pending files of the sending message other than the file with key k
Others(message, k) == SelectSeq(message.inputFiles, LAMBDA f : f.fileKey # k)

\* C16: when the marker of a file that is not the last of its batch was
\* created with success and the sending message exists, the file is no
\* longer pending and the other pending files are as before; no part of a
\* file whose marker exists is uploaded again, and no marker is created
\* twice, also when uploadFiles is called again with the pending list.
C16_FinishedFileLeavesPending ==
  [][/\ (/\ MessageCreated(TRUE)
         /\ upload.i < Len(upload.inputFiles)
         /\ sendingMessage.present) =>
          LET k == upload.inputFiles[upload.i].fileKey IN
          /\ sendingMessage'.present
          /\ \A i \in DOMAIN sendingMessage'.inputFiles :
               sendingMessage'.inputFiles[i].fileKey # k
          /\ Others(sendingMessage', k) = Others(sendingMessage, k)
     /\ \A k \in UploadKeys :
          Marked(k) =>
            /\ uploadedParts'[k] = uploadedParts[k]
            /\ Len(SelectSeq(markers', LAMBDA m : m = k)) = 1]_vars

\* uploadFiles was called again after the first file got its marker; the
\* second file is still pending, the first is not
C16_Witness ==
  /\ upload.calls = 2
  /\ upload.pc = "uploading"
  /\ Marked(1)
  /\ sendingMessage.present
  /\ Len(sendingMessage.inputFiles) = 1
  /\ sendingMessage.inputFiles[1].fileKey = 2

\* C17: on every lane the tasks stand in the order of their calls, only the
\* first of them has begun, and a task leaves the lane (so that the next
\* one begins) only when its part loop is over and its
\* wait(DOWNLOADING_TIMEOUT) has elapsed.
C17_LaneInSubmissionOrder ==
  [][\A l \in Lanes :
       /\ \A i \in DOMAIN queues'[l] :
            i >= 2 => /\ queues'[l][i].pc = "queued"
                      /\ queues'[l][i].id > queues'[l][i - 1].id
       /\ (/\ queues[l] # << >>
           /\ queues'[l] = << >> \/ Head(queues'[l]).id # Head(queues[l]).id) =>
            /\ Head(queues[l]).pc = "wait"
            /\ LaneProceeds(l)]_vars

\* the first task of lane 0 is over and its pause has not elapsed; the task
\* of the fifth call waits behind it
C17_Witness ==
  /\ Len(queues[0]) = 2
  /\ queues[0][1].pc = "wait"
  /\ queues[0][1].id = 0
  /\ queues[0][2].pc = "queued"
  /\ queues[0][2].id = 4

\* C18: without reset, the parts appended to the byte store under a file
\* key are 0, 1, ..., m in this order, each once, and m is the lastPart of
\* the key's entry.
C18_PartsInSequence ==
  \A f \in Keys :
    /\ \A i \in DOMAIN partStore[f] : partStore[f][i] = i - 1
    /\ downloadingFiles[f].present =>
         Len(partStore[f]) - 1 = downloadingFiles[f].lastPart

\* the lanes whose running task awaits a part of the file with key f
FetchingKey(f) ==
  {l \in Lanes : /\ queues[l] # << >>
                 /\ Head(queues[l]).pc = "fetch"
                 /\ Head(queues[l]).key = f}

\* C19: for every file key at most one api.downloadFilePart call of a
\* download task is outstanding.
C19_OneFetchPerKey == \A f \in Keys : Cardinality(FetchingKey(f)) <= 1

\* the entry of the file with key f is in its terminal state
Terminal(f) ==
  /\ downloadingFiles[f].present
  /\ downloadingFiles[f].partsCount >= 1
  /\ downloadingFiles[f].lastPart = downloadingFiles[f].partsCount - 1
  /\ downloadingFiles[f].progress = 100
  /\ downloadingFiles[f].fileKey
  /\ ~downloadingFiles[f].downloading

\* C20: an accepted download whose part fetches all succeed and which is
\* never paused or reset eventually reaches the terminal state, and an
\* entry gets its terminal key only in the step that records its last part.
C20_ReachesTerminalState ==
  /\ downloadingFiles["a"].present ~> Terminal("a")
  /\ [][\A f \in Keys :
          (downloadingFiles'[f].fileKey /\ ~downloadingFiles[f].fileKey) =>
            /\ \E l \in Lanes : PartFetched(l) /\ Head(queues[l]).key = f
            /\ downloadingFiles'[f].lastPart = downloadingFiles'[f].partsCount - 1
            /\ Len(partStore'[f]) = downloadingFiles'[f].partsCount]_vars

\* the large file is complete: its three parts are stored in order
C20_Witness ==
  /\ Terminal("a")
  /\ downloadingFiles["a"].partsCount = BigParts
  /\ partStore["a"] = [i \in 1 .. BigParts |-> i - 1]

====
